---- MODULE Spec2Model ----
(***************************************************************************)
(* Model of the MCP tool subsystem of app/mcp: ToolRegistry (the document  *)
(* of tool configurations), ToolLoader (instantiation and instance cache)  *)
(* and ToolManager (initialize / execute_tool / reload_config).            *)
(*                                                                         *)
(* Scheduling: every caller is a coroutine on one asyncio event loop.  A   *)
(* coroutine runs without interruption until it awaits something that      *)
(* really suspends; reload_config is a plain function.  Calls are issued   *)
(* (Call), wait on the loop in any number, and are run in any order.       *)
(***************************************************************************)
EXTENDS Integers, Sequences, FiniteSets, Bags, TLC

VARIABLES
    config,        \* ToolRegistry.config.tools : name -> ToolConfig
    env,           \* os.environ, restricted to the variables the documents name
    tool_cache,    \* ToolLoader._tool_cache : name -> tool instance
    tools,         \* ToolManager._tools : None or name -> object
    inflight,      \* bag of the calls waiting on the event loop, each with its position
    last,          \* the call that completed most recently, with what it returned or raised
    reloads,       \* number of successful reload_config calls so far
    constructed,   \* number of tool instances constructed so far (instance identity)
    built,         \* per name: instances constructed since the cache was last cleared
    inits,         \* load_all_tools runs since _tools was last None
    implicitInits, \* of those, the ones started from inside execute_tool
    service        \* MCPService: the class attribute _instance and what it holds

vars == <<config, env, tool_cache, tools, inflight, last, reloads,
          constructed, built, inits, implicitInits, service>>

----------------------------------------------------------------------------
(* Bounds *)

NumTasks == 2
MaxReloads == 1
MaxConstruct == 2
MaxInits == 2

----------------------------------------------------------------------------
(* Values *)

Null == [t |-> "null"]
Str(s) == [t |-> "str", s |-> s]
Num(n) == [t |-> "int", n |-> n]
Dict(keys) == [t |-> "dict", keys |-> keys]

EmptyMap == [x \in {} |-> Null]
Put(f, k, v) == [x \in (DOMAIN f) \cup {k} |-> IF x = k THEN v ELSE f[x]]

\* Character sequences stand for Python str where the code looks inside them.
Placeholder == <<"$", "{", "K", "}">>
EnvVarK == <<"K">>
Secret == <<"s">>

ToolNames == {"current_date", "google_search", "sqlite", "weather"}

ToolConfig(enabled, description, cfg) ==
    [enabled |-> enabled, description |-> description, config |-> cfg]

NoConfig == EmptyMap
SearchConfig(n) == [k \in {"api_key", "max_results"} |->
                      IF k = "api_key" THEN Str(Placeholder) ELSE Num(n)]

\* The documents the configuration file can hold (MCPConfig.tools).
DocDateOnly ==
    [n \in {"current_date", "google_search"} |->
        IF n = "current_date" THEN ToolConfig(TRUE, "d", NoConfig)
        ELSE ToolConfig(FALSE, "g", SearchConfig(5))]
DocAll ==
    [n \in ToolNames |->
        IF n = "current_date" THEN ToolConfig(TRUE, "d", NoConfig)
        ELSE IF n = "google_search" THEN ToolConfig(TRUE, "g", SearchConfig(5))
        ELSE ToolConfig(TRUE, n, NoConfig)]
DocSearch ==
    [n \in {"google_search", "current_date"} |->
        IF n = "google_search" THEN ToolConfig(TRUE, "g", SearchConfig(3))
        ELSE ToolConfig(FALSE, "d", NoConfig)]
DocEmpty == EmptyMap

\* A JSON document that MCPConfig rejects: the entry has no "enabled" field.
DocNoEnabled ==
    [n \in {"current_date"} |-> [description |-> "d", config |-> NoConfig]]

Documents == {DocDateOnly, DocAll, DocSearch}

\* What open()/json.load()/MCPConfig(**data) can meet at config_path.
FileMissing == [file |-> "missing"]
FileMalformed == [file |-> "malformed"]
FileWith(doc) == [file |-> "json", tools |-> doc]
FileContents ==
    {FileMissing, FileMalformed, FileWith(DocNoEnabled)}
    \cup {FileWith(d) : d \in Documents}

Environments == {[v \in {} |-> <<>>], [v \in {EnvVarK} |-> Secret]}

----------------------------------------------------------------------------
(* ToolRegistry *)

Raised(msg) == [raised |-> TRUE, msg |-> msg]
Returned(v) == [raised |-> FALSE, value |-> v]

JSONDecodeError == <<"JSONDecodeError">>
ValidationError == <<"ValidationError">>

\* MCPConfig(**config_data): enabled and description are required fields of
\* every ToolConfig.
Validates(data) ==
    \A n \in DOMAIN data : {"enabled", "description"} \subseteq DOMAIN data[n]

\* Faulty variant of _load_config: a file that cannot be used counts as empty.
_load_config_lenient(file) ==
    IF file.file = "missing" THEN Returned(DocEmpty)
    ELSE IF file.file = "malformed" THEN Returned(DocEmpty)
    ELSE IF ~Validates(file.tools) THEN Returned(DocEmpty)
    ELSE Returned(file.tools)

_load_config(file) ==
    IF file.file = "missing" THEN Returned(DocEmpty)
    ELSE IF file.file = "malformed" THEN Raised(JSONDecodeError)
    ELSE IF ~Validates(file.tools) THEN Raised(ValidationError)
    ELSE Returned(file.tools)

\* Faulty variant of get_enabled_tools: the filter on enabled is dropped.
get_enabled_tools_unfiltered(cfg) == cfg

get_enabled_tools(cfg) ==
    [n \in {m \in DOMAIN cfg : cfg[m].enabled} |-> cfg[n]]

get_tool_config(cfg, tool_name) ==
    IF tool_name \in DOMAIN cfg THEN cfg[tool_name] ELSE Null

\* Faulty variant of is_tool_enabled: the enabled flag is not consulted.
is_tool_enabled_declared(cfg, tool_name) ==
    tool_name \in DOMAIN cfg

\* Faulty variant of is_tool_enabled: an undeclared name counts as enabled.
is_tool_enabled_or_undeclared(cfg, tool_name) ==
    IF tool_name \in DOMAIN cfg THEN cfg[tool_name].enabled ELSE TRUE

is_tool_enabled(cfg, tool_name) ==
    IF tool_name \in DOMAIN cfg THEN cfg[tool_name].enabled ELSE FALSE

\* A description string; Python treats the empty one as false.
Text(v) == [t |-> "text", v |-> v]

get_tool_description(cfg, tool_name) ==
    IF tool_name \in DOMAIN cfg THEN Text(cfg[tool_name].description) ELSE Null

StartsWith(s, p) == Len(s) >= Len(p) /\ SubSeq(s, 1, Len(p)) = p
EndsWith(s, p) == Len(s) >= Len(p) /\ SubSeq(s, Len(s) - Len(p) + 1, Len(s)) = p

\* os.getenv(name, default)
getenv(e, name, default) == IF name \in DOMAIN e THEN e[name] ELSE default

\* Faulty variant of interpolate_config: an unset variable becomes "".
interpolate_config_blank(e, tool_config) ==
    [key \in DOMAIN tool_config |->
        LET value == tool_config[key] IN
        IF value.t = "str" /\ StartsWith(value.s, <<"$", "{">>) /\ EndsWith(value.s, <<"}">>)
        THEN Str(getenv(e, SubSeq(value.s, 3, Len(value.s) - 1), <<>>))
        ELSE value]

interpolate_config(e, tool_config) ==
    [key \in DOMAIN tool_config |->
        LET value == tool_config[key] IN
        IF value.t = "str" /\ StartsWith(value.s, <<"$", "{">>) /\ EndsWith(value.s, <<"}">>)
        THEN Str(getenv(e, SubSeq(value.s, 3, Len(value.s) - 1), value.s))
        ELSE value]

\* Faulty variant: the substitutions are written into the dict passed in.
interpolate_config_in_place(e, tool_config) == interpolate_config(e, tool_config)

\* What the dict passed to interpolate_config (the stored ToolConfig.config)
\* holds when the call returns: every assignment of the loop is to the new
\* dict "result", none to tool_config.
interpolate_config_argument(e, tool_config) == tool_config

----------------------------------------------------------------------------
(* Tools *)

Instance(name, id, cfg, gen) ==
    [kind |-> "instance", name |-> name, id |-> id, config |-> cfg, gen |-> gen]

KW(k, v) == [x \in {k} |-> v]
NoArgs == [x \in {} |-> ""]

TypeError == <<"unexpected keyword argument">>

CurrentDate_execute(tool, kwargs) ==
    IF ~(DOMAIN kwargs \subseteq {"format"}) THEN Raised(TypeError)
    ELSE LET format == IF "format" \in DOMAIN kwargs THEN kwargs["format"] ELSE "full" IN
         Returned(Dict({"timestamp", "unix_timestamp"}
                       \cup (IF format \in {"full", "date_only"}
                             THEN {"date", "date_readable"} ELSE {})
                       \cup (IF format \in {"full", "time_only"}
                             THEN {"time", "time_with_tz"} ELSE {})))

GoogleSearch_execute(tool, kwargs) ==
    IF ~(DOMAIN kwargs \subseteq {"query", "num_results", "safe_search"})
       \/ "query" \notin DOMAIN kwargs
    THEN Raised(TypeError)
    ELSE LET api_key == IF "api_key" \in DOMAIN tool.config
                        THEN tool.config["api_key"] ELSE Null IN
         IF api_key = Null \/ (api_key.t = "str" /\ StartsWith(api_key.s, <<"$", "{">>))
         THEN Returned(Dict({"success", "error", "data"}))
         ELSE Returned(Dict({"success", "query", "num_results", "data"}))

\* tool.execute(**kwargs) on an instance of one of the tools whose module is
\* among the sources.
Tool_execute(tool, kwargs) ==
    CASE tool.name = "current_date" -> CurrentDate_execute(tool, kwargs)
      [] tool.name = "google_search" -> GoogleSearch_execute(tool, kwargs)

\* A JSON schema, by the names under "properties" and under "required".
Schema(properties, required) ==
    [t |-> "schema", properties |-> properties, required |-> required]

BaseTool_get_schema == Schema({}, {})
CurrentDate_get_schema == Schema({"format"}, {})
GoogleSearch_get_schema == Schema({"query", "num_results", "safe_search"}, {"query"})

\* tool.get_schema() on an instance of one of the tools whose module is among
\* the sources.
Tool_get_schema(tool) ==
    CASE tool.name = "current_date" -> CurrentDate_get_schema
      [] tool.name = "google_search" -> GoogleSearch_get_schema

\* hasattr(obj, attr) for the methods of BaseTool: a tool instance has them,
\* a coroutine object does not.
hasattr(obj, attr) == obj.kind = "instance" /\ attr \in {"execute", "get_schema"}

----------------------------------------------------------------------------
(* ToolLoader *)

TOOL_IMPLEMENTATIONS == {"google_search", "sqlite", "current_date"}

\* Modules of app.mcp.tools that import and construct: google_search.py and
\* current_date.py define the class named by _to_pascal_case and inherit
\* BaseTool.__init__, which only stores the config.
ConstructibleTools == {"google_search", "current_date"}

\* Whether import, class lookup and constructor succeed for tool_name:
\* sqlite_tool.py is not among the sources, so for it either can happen.
ConstructionOutcomes(tool_name) ==
    IF tool_name \in ConstructibleTools THEN {TRUE} ELSE BOOLEAN

\* Faulty variant of the cache check: the cache is never consulted.
LoadToolCacheMissAlways(cache, tool_name) == TRUE

\* Line 44 of load_tool: the cache check.
LoadToolCacheMiss(cache, tool_name) == tool_name \notin DOMAIN cache

Loaded(ret, cache, effects) == [ret |-> ret, cache |-> cache, effects |-> effects]

\* Faulty variant of load_tool: a failed load is remembered in the cache.
load_tool_miss_remembered(cfg, e, cache, tool_name, id, gen, ok) ==
    IF ~is_tool_enabled(cfg, tool_name) THEN Loaded(Null, cache, {})
    ELSE LET tool_config == get_tool_config(cfg, tool_name) IN
         IF tool_config = Null THEN Loaded(Null, cache, {})
         ELSE LET c == interpolate_config(e, tool_config.config) IN
              IF tool_name \notin TOOL_IMPLEMENTATIONS \/ ~ok
              THEN Loaded(Null, Put(cache, tool_name, Null), {"interpolate"})
              ELSE LET tool_instance == Instance(tool_name, id, c, gen) IN
                   Loaded(tool_instance, Put(cache, tool_name, tool_instance),
                          {"interpolate", "construct"})

\* Lines 48-90 of load_tool: what follows a cache miss.  id is the identity
\* the new instance will have, gen the document generation, ok whether import
\* and construction succeed.
load_tool_miss(cfg, e, cache, tool_name, id, gen, ok) ==
    IF ~is_tool_enabled(cfg, tool_name) THEN Loaded(Null, cache, {})
    ELSE LET tool_config == get_tool_config(cfg, tool_name) IN
         IF tool_config = Null THEN Loaded(Null, cache, {})
         ELSE LET c == interpolate_config(e, tool_config.config) IN
              IF tool_name \notin TOOL_IMPLEMENTATIONS
              THEN Loaded(Null, cache, {"interpolate"})
              ELSE IF ~ok
              THEN Loaded(Null, cache, {"interpolate"})
              ELSE LET tool_instance == Instance(tool_name, id, c, gen) IN
                   Loaded(tool_instance, Put(cache, tool_name, tool_instance),
                          {"interpolate", "construct"})

\* load_tool(tool_name), run to completion.
load_tool(cfg, e, cache, tool_name, id, gen, ok) ==
    IF ~LoadToolCacheMiss(cache, tool_name) THEN Loaded(cache[tool_name], cache, {})
    ELSE load_tool_miss(cfg, e, cache, tool_name, id, gen, ok)

\* self.load_tool(tool_name) without await: calling an async def only creates
\* a coroutine object; its body does not run.
Coroutine(tool_name, gen, run) ==
    [kind |-> "coroutine", name |-> tool_name, gen |-> gen, run |-> run]

Truthy(obj) == obj # Null

load_all_tools(cfg, gen, run) ==
    LET enabled_tools == get_enabled_tools(cfg)
        tool == [n \in DOMAIN enabled_tools |-> Coroutine(n, gen, run)]
    IN [n \in {m \in DOMAIN enabled_tools : Truthy(tool[m])} |-> tool[n]]

clear_cache(cache) == EmptyMap

----------------------------------------------------------------------------
(* ToolManager *)

ToolResult(success, data, error) ==
    [success |-> success, data |-> data, error |-> error]

NotFoundMessage(tool_name) == <<"Tool '", tool_name, "' not found or not enabled">>

\* str(e) of the AttributeError raised by tool.execute on a coroutine object
NoExecuteMessage == <<"'coroutine' object has no attribute 'execute'">>

NoTools == [is_none |-> TRUE, map |-> EmptyMap]
Held(m) == [is_none |-> FALSE, map |-> m]

\* Faulty variants: the operation suspends between its check and its update.
InitializeSuspends == TRUE
LoadToolSuspends == TRUE
ReloadSuspends == TRUE

\* initialize() and load_tool() contain no await that suspends, and
\* reload_config() is not a coroutine: none of them gives the event loop a
\* chance to run another caller half way.
InitializeYields == FALSE

\* Faulty variant: initialize() waits for something that never happens.
InitializeBlocks == FALSE

\* "await self.initialize()" comes back: the body of initialize() is one
\* synchronous call and a log line, with nothing to wait for.
InitializeReturns == TRUE
LoadToolYields == FALSE
ReloadYields == FALSE

\* Faulty variant of initialize: the loaded mapping is not stored.
initialize_unstored(cfg, gen, run) == NoTools

\* initialize(): self._tools after it, in document generation gen.
initialize(cfg, gen, run) == Held(load_all_tools(cfg, gen, run))

\* Faulty variant of the execute_tool body: the not-found result carries the
\* message as data and no error.
ExecuteBodyNoError(held, tool_name, kwargs) ==
    IF tool_name \notin DOMAIN held
    THEN Returned(ToolResult(FALSE, Str(NotFoundMessage(tool_name)), Null))
    ELSE LET tool == held[tool_name]
             outcome == IF tool.kind = "coroutine" THEN Raised(NoExecuteMessage)
                        ELSE Tool_execute(tool, kwargs)
         IN IF outcome.raised
            THEN Returned(ToolResult(FALSE, Null, Str(outcome.msg)))
            ELSE Returned(ToolResult(TRUE, outcome.value, Null))

\* Lines 86-118 of execute_tool once self._tools is set: the try body and the
\* except clause.
ExecuteBody(held, tool_name, kwargs) ==
    IF tool_name \notin DOMAIN held
    THEN Returned(ToolResult(FALSE, Null, Str(NotFoundMessage(tool_name))))
    ELSE LET tool == held[tool_name]
             outcome == IF tool.kind = "coroutine" THEN Raised(NoExecuteMessage)
                        ELSE Tool_execute(tool, kwargs)
         IN IF outcome.raised
            THEN Returned(ToolResult(FALSE, Null, Str(outcome.msg)))
            ELSE Returned(ToolResult(TRUE, outcome.value, Null))

\* Faulty variant of reload_config: the cache and _tools are dropped before
\* the document is loaded.
ReloadConfigDropsFirst(cfg, cache, held, loaded) ==
    IF loaded.raised
    THEN [config |-> cfg, tool_cache |-> clear_cache(cache), tools |-> NoTools,
          ok |-> FALSE]
    ELSE [config |-> loaded.value, tool_cache |-> clear_cache(cache),
          tools |-> NoTools, ok |-> TRUE]

\* Faulty variant of reload_config: the Loader's cache is not cleared.
ReloadConfigKeepsCache(cfg, cache, held, loaded) ==
    IF loaded.raised
    THEN [config |-> cfg, tool_cache |-> cache, tools |-> held, ok |-> FALSE]
    ELSE [config |-> loaded.value, tool_cache |-> cache, tools |-> NoTools, ok |-> TRUE]

\* reload_config(): the three statements, given what _load_config did.
ReloadConfig(cfg, cache, held, loaded) ==
    IF loaded.raised
    THEN [config |-> cfg, tool_cache |-> cache, tools |-> held, ok |-> FALSE]
    ELSE [config |-> loaded.value, tool_cache |-> clear_cache(cache),
          tools |-> NoTools, ok |-> TRUE]

ToolInfo(name, description, enabled, input_schema) ==
    [name |-> name, description |-> description, enabled |-> enabled,
     input_schema |-> input_schema]

\* ToolManager._get_tool_schema
_get_tool_schema(held, tool_name) ==
    IF held.is_none \/ tool_name \notin DOMAIN held.map THEN Dict({})
    ELSE LET tool == held.map[tool_name] IN
         IF hasattr(tool, "get_schema") THEN Tool_get_schema(tool) ELSE Dict({})

\* Faulty variant of get_available_tools: it lists the held mapping.
get_available_tools_held(cfg, held) ==
    [t |-> "list",
     items |-> SetToBag({ToolInfo(n, Text(cfg[n].description), TRUE,
                                  _get_tool_schema(held, n)) :
                            n \in DOMAIN held.map \cap DOMAIN cfg})]

\* ToolManager.get_available_tools: the list, one ToolInfo per entry of
\* get_enabled_tools(), as a bag.
get_available_tools(cfg, held) ==
    LET enabled_tools == get_enabled_tools(cfg) IN
    [t |-> "list",
     items |-> SetToBag({ToolInfo(n, Text(enabled_tools[n].description), TRUE,
                                  _get_tool_schema(held, n)) :
                            n \in DOMAIN enabled_tools})]

----------------------------------------------------------------------------
(* MCPService and the tools routes *)

\* MCPService.get_tool_info
get_tool_info(cfg, held, tool_name) ==
    LET description == get_tool_description(cfg, tool_name) IN
    IF description = Null \/ description.v = "" THEN Null
    ELSE [t |-> "info", name |-> tool_name, description |-> description,
          schema |-> _get_tool_schema(held, tool_name)]

HTTPException(status_code, detail) ==
    [raised |-> TRUE, msg |-> detail, status_code |-> status_code]
JSONResponse(status_code, content) ==
    [raised |-> FALSE, value |-> [t |-> "response", status_code |-> status_code,
                                  content |-> content]]

\* GET /tools/{tool_name}
get_tool(cfg, held, tool_name) ==
    LET tool_info == get_tool_info(cfg, held, tool_name) IN
    IF tool_info = Null THEN HTTPException(404, NotFoundMessage(tool_name))
    ELSE JSONResponse(200, tool_info)

\* MCPService._instance is None: no MCPService() has run yet.
NoService ==
    [instance |-> FALSE, initialized |-> FALSE, objects |-> 0, managers |-> 0,
     failed |-> FALSE]

\* The state tools_route.py leaves at import: mcp_service = MCPService() has
\* completed, with one object and one ToolManager.
Serving ==
    [instance |-> TRUE, initialized |-> TRUE, objects |-> 1, managers |-> 1,
     failed |-> FALSE]

\* MCPService.__new__: objects counts the MCPService objects ever created,
\* managers the ToolManagers, failed records that an __init__ has raised.
MCPService_new(svc) ==
    IF ~svc.instance
    THEN [svc EXCEPT !.instance = TRUE, !.initialized = FALSE, !.objects = @ + 1]
    ELSE svc

\* Faulty variant of the guard of __init__: the flag is not consulted.
MCPService_init_always(svc) == TRUE

\* Lines 26-27 of MCPService.__init__: whether it goes on to build a
\* ToolManager.
MCPService_init_builds(svc) == ~svc.initialized

----------------------------------------------------------------------------
(* Calls *)

ExecuteCall(name, kwargs) == [op |-> "execute_tool", name |-> name, kwargs |-> kwargs]
LoadCall(name) == [op |-> "load_tool", name |-> name, kwargs |-> NoArgs]
InitializeCall == [op |-> "initialize", name |-> "", kwargs |-> NoArgs]
ReloadCall == [op |-> "reload_config", name |-> "", kwargs |-> NoArgs]
\* The synchronous read operations: they run when called.
ListCall == [op |-> "get_available_tools", name |-> "", kwargs |-> NoArgs]
DescriptionCall(name) == [op |-> "get_tool_description", name |-> name, kwargs |-> NoArgs]
SchemaCall(name) == [op |-> "_get_tool_schema", name |-> name, kwargs |-> NoArgs]
InfoCall(name) == [op |-> "get_tool", name |-> name, kwargs |-> NoArgs]
ServiceCall == [op |-> "MCPService", name |-> "", kwargs |-> NoArgs]
NoCall == [op |-> "", name |-> "", kwargs |-> NoArgs]

Calls ==
    {ExecuteCall("current_date", KW("format", "date_only")),
     ExecuteCall("current_date", KW("query", "q"))}
    \cup {LoadCall(n) : n \in ToolNames}
    \cup {InitializeCall, ReloadCall}

\* A call waiting on the event loop: where it will resume.
Task(c, at) == [call |-> c, pc |-> at]

\* A completed call: what it returned or raised, and which of interpolation,
\* construction and load_all_tools it performed.
Completed(c, r, effects) == [call |-> c, result |-> r, effects |-> effects]
Nothing == Completed(NoCall, Returned(Null), {})

\* A completed reload_config call, with what it found at config_path.
CompletedReload(c, r, file) == [call |-> c, result |-> r, effects |-> {}, file |-> file]

ZeroBuilt == [n \in ToolNames |-> 0]

Init ==
    /\ \E file \in FileContents :
          /\ ~_load_config(file).raised
          /\ config = _load_config(file).value
    /\ env \in Environments
    /\ tool_cache = EmptyMap
    /\ tools = NoTools
    /\ inflight = EmptyBag
    /\ last = Nothing
    /\ reloads = 0
    /\ constructed = 0
    /\ built = ZeroBuilt
    /\ inits = 0
    /\ implicitInits = 0
    /\ service = Serving

Resume(task, at) == (inflight (-) SetToBag({task})) (+) SetToBag({Task(task.call, at)})
Finish(task) == inflight (-) SetToBag({task})

\* A request arrives: the call is scheduled on the event loop.
Call(c) ==
    /\ BagCardinality(inflight) < NumTasks
    /\ inflight' = inflight (+) SetToBag({Task(c, "pending")})
    /\ UNCHANGED <<config, env, tool_cache, tools, last, reloads, constructed,
                   built, inits, implicitInits, service>>

\* ToolLoader.load_tool awaited by a caller.
LoadTool(task, ok) ==
    /\ BagIn(task, inflight)
    /\ task.call.op = "load_tool"
    /\ LET tool_name == task.call.name
           miss == LoadToolCacheMiss(tool_cache, tool_name)
       IN \/ /\ task.pc = "pending"
             /\ LoadToolYields /\ miss
             /\ inflight' = Resume(task, "constructing")
             /\ UNCHANGED <<config, tool_cache, last, constructed, built>>
          \/ /\ task.pc = "constructing" \/ ~(LoadToolYields /\ miss)
             /\ LET r == IF task.pc = "constructing"
                         THEN load_tool_miss(config, env, tool_cache, tool_name,
                                             constructed + 1, reloads, ok)
                         ELSE load_tool(config, env, tool_cache, tool_name,
                                        constructed + 1, reloads, ok)
                    new == "construct" \in r.effects
                IN /\ new => constructed < MaxConstruct
                   /\ config' = IF "interpolate" \in r.effects
                                THEN [config EXCEPT ![tool_name].config =
                                         interpolate_config_argument(env, @)]
                                ELSE config
                   /\ tool_cache' = r.cache
                   /\ constructed' = IF new THEN constructed + 1 ELSE constructed
                   /\ built' = IF new THEN [built EXCEPT ![tool_name] = @ + 1] ELSE built
                   /\ last' = Completed(task.call, Returned(r.ret), r.effects)
                   /\ inflight' = Finish(task)
    /\ UNCHANGED <<env, tools, reloads, inits, implicitInits, service>>

\* ToolManager.initialize awaited by a caller.
Initialize(task) ==
    /\ BagIn(task, inflight)
    /\ task.call.op = "initialize"
    /\ inits < MaxInits
    /\ tools' = initialize(config, reloads, inits + 1)
    /\ inits' = inits + 1
    /\ last' = Completed(task.call, Returned(Null), {"load_all_tools"})
    /\ inflight' = Finish(task)
    /\ UNCHANGED <<config, env, tool_cache, reloads, constructed, built,
                   implicitInits, service>>

\* ToolManager.execute_tool awaited by a caller.
ExecuteTool(task) ==
    /\ BagIn(task, inflight)
    /\ task.call.op = "execute_tool"
    /\ LET none == tools.is_none
       IN \/ /\ task.pc = "pending"
             /\ InitializeYields /\ none
             /\ inflight' = Resume(task, "initializing")
             /\ UNCHANGED <<tools, last, inits, implicitInits>>
          \/ /\ task.pc = "initializing" \/ ~(InitializeYields /\ none)
             /\ LET init == none \/ task.pc = "initializing"
                    after == IF init THEN initialize(config, reloads, inits + 1)
                             ELSE tools
                IN /\ init => InitializeReturns
                   /\ init => inits < MaxInits
                   /\ tools' = after
                   /\ inits' = IF init THEN inits + 1 ELSE inits
                   /\ implicitInits' = IF init THEN implicitInits + 1 ELSE implicitInits
                   /\ last' = Completed(task.call,
                                ExecuteBody(after.map, task.call.name, task.call.kwargs),
                                IF init THEN {"load_all_tools"} ELSE {})
                   /\ inflight' = Finish(task)
    /\ UNCHANGED <<config, env, tool_cache, reloads, constructed, built, service>>

\* ToolManager.reload_config called by a caller; file is what is at
\* config_path when _load_config reads it.
Reload(task, file) ==
    /\ BagIn(task, inflight)
    /\ task.call.op = "reload_config"
    /\ LET loaded == IF task.pc = "clearing" THEN Returned(config) ELSE _load_config(file)
           r == ReloadConfig(config, tool_cache, tools, loaded)
       IN \/ /\ task.pc = "pending"
             /\ ReloadYields /\ r.ok
             /\ reloads < MaxReloads
             /\ config' = r.config
             /\ reloads' = reloads + 1
             /\ inflight' = Resume(task, "clearing")
             /\ UNCHANGED <<tool_cache, tools, last, built, inits, implicitInits>>
          \/ /\ task.pc = "clearing" \/ ~(ReloadYields /\ r.ok)
             /\ (r.ok /\ task.pc = "pending") => reloads < MaxReloads
             /\ config' = r.config
             /\ tool_cache' = r.tool_cache
             /\ tools' = r.tools
             /\ reloads' = IF r.ok /\ task.pc = "pending" THEN reloads + 1 ELSE reloads
             /\ built' = IF r.ok THEN ZeroBuilt ELSE built
             /\ inits' = IF r.tools.is_none THEN 0 ELSE inits
             /\ implicitInits' = IF r.tools.is_none THEN 0 ELSE implicitInits
             /\ last' = CompletedReload(task.call,
                                        IF r.ok THEN Returned(Null) ELSE Raised(loaded.msg),
                                        file)
             /\ inflight' = Finish(task)
    /\ UNCHANGED <<env, constructed, service>>

\* A synchronous read operation runs and returns r.
Read(c, r) ==
    /\ last' = Completed(c, r, {})
    /\ UNCHANGED <<config, env, tool_cache, tools, inflight, reloads, constructed,
                   built, inits, implicitInits, service>>

GetAvailableTools == Read(ListCall, Returned(get_available_tools(config, tools)))
GetToolDescription(tool_name) ==
    Read(DescriptionCall(tool_name), Returned(get_tool_description(config, tool_name)))
GetToolSchema(tool_name) ==
    Read(SchemaCall(tool_name), Returned(_get_tool_schema(tools, tool_name)))
GetTool(tool_name) ==
    Read(InfoCall(tool_name), get_tool(config, tools, tool_name))

Next ==
    \/ \E c \in Calls : Call(c)
    \/ \E task \in BagToSet(inflight) :
          \E ok \in ConstructionOutcomes(task.call.name) : LoadTool(task, ok)
    \/ \E task \in BagToSet(inflight) : Initialize(task)
    \/ \E task \in BagToSet(inflight) : ExecuteTool(task)
    \/ \E task \in BagToSet(inflight), file \in FileContents : Reload(task, file)

Spec == Init /\ [][Next]_vars

\* The same machine with the read operations of the Manager and of the tools
\* routes, serving one awaited call at a time: every operation is atomic on
\* the event loop, so the order in which waiting calls run is the order in
\* which a serial client issues them.
ServiceNext ==
    \/ \E c \in Calls : inflight = EmptyBag /\ Call(c)
    \/ \E task \in BagToSet(inflight) :
          \E ok \in ConstructionOutcomes(task.call.name) : LoadTool(task, ok)
    \/ \E task \in BagToSet(inflight) : Initialize(task)
    \/ \E task \in BagToSet(inflight) : ExecuteTool(task)
    \/ \E task \in BagToSet(inflight), file \in FileContents : Reload(task, file)
    \/ GetAvailableTools
    \/ \E tool_name \in ToolNames : GetToolDescription(tool_name)
    \/ \E tool_name \in ToolNames : GetToolSchema(tool_name)
    \/ \E tool_name \in ToolNames : GetTool(tool_name)

ServiceSpec == Init /\ [][ServiceNext]_vars

----------------------------------------------------------------------------
(* The Manager's awaited operations under the event loop's scheduling *)

ExecuteCalls == {c \in Calls : c.op = "execute_tool"}
ManagerCalls == {c \in Calls : c.op \in {"execute_tool", "initialize", "reload_config"}}

ManagerNext ==
    \/ \E c \in ManagerCalls : Call(c)
    \/ \E task \in BagToSet(inflight) : Initialize(task)
    \/ \E task \in BagToSet(inflight) : ExecuteTool(task)
    \/ \E task \in BagToSet(inflight), file \in FileContents : Reload(task, file)

\* The event loop runs every scheduled coroutine: a call that stays ready to
\* run is run.
Scheduling ==
    \A c \in ExecuteCalls :
        /\ WF_vars(ExecuteTool(Task(c, "pending")))
        /\ WF_vars(ExecuteTool(Task(c, "initializing")))

ManagerSpec == Init /\ [][ManagerNext]_vars /\ Scheduling

----------------------------------------------------------------------------
(* MCPService() *)

\* Before the first MCPService(): no service object, and no ToolManager, so
\* no document, cache or mapping yet.
SingletonInit ==
    /\ config = DocEmpty
    /\ env \in Environments
    /\ tool_cache = EmptyMap
    /\ tools = NoTools
    /\ inflight = EmptyBag
    /\ last = Nothing
    /\ reloads = 0
    /\ constructed = 0
    /\ built = ZeroBuilt
    /\ inits = 0
    /\ implicitInits = 0
    /\ service = NoService

\* A completed MCPService() call: the object it returned or the exception of
\* ToolManager(), and the file ToolManager() read, if it was built.
CompletedService(r, file) ==
    [call |-> ServiceCall, result |-> r, effects |-> {}, file |-> file]
FileUnread == [file |-> "unread"]

\* MCPService(): __new__, then __init__ on the object __new__ returned; file
\* is what ToolRegistry._load_config finds when ToolManager() is built.
Construct(file) ==
    LET made == MCPService_new(service)
        loaded == _load_config(file)
    IN /\ IF ~MCPService_init_builds(made)
          THEN /\ service' = made
               /\ last' = CompletedService(Returned(Num(made.objects)), FileUnread)
               /\ UNCHANGED <<config, tool_cache, tools, inits, implicitInits, built>>
          ELSE IF loaded.raised
          THEN /\ service' = [made EXCEPT !.failed = TRUE]
               /\ last' = CompletedService(Raised(loaded.msg), file)
               /\ UNCHANGED <<config, tool_cache, tools, inits, implicitInits, built>>
          ELSE /\ service' = [made EXCEPT !.initialized = TRUE, !.managers = @ + 1]
               /\ config' = loaded.value
               /\ tool_cache' = EmptyMap
               /\ tools' = NoTools
               /\ inits' = 0
               /\ implicitInits' = 0
               /\ built' = ZeroBuilt
               /\ last' = CompletedService(Returned(Num(made.objects)), file)
       /\ UNCHANGED <<env, inflight, reloads, constructed>>

\* MCPService() at any moment, and the awaited operations served one at a
\* time once a service object is initialized.
SingletonNext ==
    \/ \E file \in FileContents : Construct(file)
    \/ \E c \in Calls : service.initialized /\ inflight = EmptyBag /\ Call(c)
    \/ \E task \in BagToSet(inflight) :
          \E ok \in ConstructionOutcomes(task.call.name) : LoadTool(task, ok)
    \/ \E task \in BagToSet(inflight) : Initialize(task)
    \/ \E task \in BagToSet(inflight) : ExecuteTool(task)
    \/ \E task \in BagToSet(inflight), file \in FileContents : Reload(task, file)

SingletonSpec == SingletonInit /\ [][SingletonNext]_vars

----------------------------------------------------------------------------
(* AuthMiddleware *)

\* Request paths, character by character.
PathRoot ==
    <<"/">>
PathHealth ==
    <<"/", "h", "e", "a", "l", "t", "h">>
PathHealthz ==
    <<"/", "h", "e", "a", "l", "t", "h", "z">>
PathLogin ==
    <<"/", "a", "p", "i", "/", "v", "1", "/", "a", "u", "t", "h", "/", "l", "o", "g", "i", "n">>
PathRegister ==
    <<"/", "a", "p", "i", "/", "v", "1", "/", "a", "u", "t", "h", "/", "r", "e", "g", "i", "s", "t", "e", "r">>
PathToolsList ==
    <<"/", "a", "p", "i", "/", "v", "1", "/", "t", "o", "o", "l", "s", "/", "l", "i", "s", "t">>
PathChatInvoke ==
    <<"/", "a", "p", "i", "/", "v", "1", "/", "c", "h", "a", "t", "/", "i", "n", "v", "o", "k", "e">>

\* Settings.auth_excluded_routes, the default.
auth_excluded_routes == {PathHealth, PathRoot, PathLogin}

Paths ==
    {PathRoot, PathHealth, PathHealthz, PathLogin, PathRegister, PathToolsList,
     PathChatInvoke}

\* AuthMiddleware._is_excluded_route
_is_excluded_route(path) ==
    \E excluded_route \in auth_excluded_routes :
        path = excluded_route \/ StartsWith(path, excluded_route)

\* A token, by what get_user_id_from_token and UserRepository.get_by_id make
\* of it: no user id, a user id without a user, an inactive user, an active
\* user.
Token(user_id, user, is_active) ==
    [user_id |-> user_id, user |-> user, is_active |-> is_active]
Tokens ==
    {Token(FALSE, FALSE, FALSE), Token(TRUE, FALSE, FALSE),
     Token(TRUE, TRUE, FALSE), Token(TRUE, TRUE, TRUE)}

\* The Authorization header: absent, or the list auth_header.split() gives.
NoHeader == <<>>
Header(scheme, token) == <<[word |-> scheme], [word |-> token]>>
Headers ==
    {NoHeader, <<[word |-> "Bearer"]>>}
    \cup {Header(scheme, token) : scheme \in {"Bearer", "bearer", "Basic"}, token \in Tokens}
    \cup {Header("Bearer", token) \o <<[word |-> "x"]>> : token \in Tokens}

\* str.lower() on the schemes above
lower(scheme) == IF scheme \in {"Bearer", "bearer"} THEN "bearer" ELSE "basic"

Unauthorized(detail) ==
    [raised |-> TRUE, msg |-> detail, status_code |-> 401]

\* call_next(request): the request reaches the route handler, with
\* request.state.user set or not.
call_next(authenticated) ==
    Returned([t |-> "call_next", authenticated |-> authenticated])

\* AuthMiddleware.dispatch
dispatch(path, auth_header) ==
    IF _is_excluded_route(path) THEN call_next(FALSE)
    ELSE IF auth_header = NoHeader THEN Unauthorized("Missing authorization header")
    ELSE IF Len(auth_header) # 2 \/ lower(auth_header[1].word) # "bearer"
    THEN Unauthorized("Invalid authorization header format")
    ELSE LET token == auth_header[2].word IN
         IF ~token.user_id THEN Unauthorized("Invalid or expired token")
         ELSE IF ~token.user \/ ~token.is_active
         THEN Unauthorized("Inactive or missing user")
         ELSE call_next(TRUE)

DispatchCall(path, auth_header) ==
    [op |-> "dispatch", name |-> path, kwargs |-> auth_header]

\* One request has arrived at the middleware.
AuthInit ==
    /\ \E path \in Paths, auth_header \in Headers :
          inflight = SetToBag({Task(DispatchCall(path, auth_header), "pending")})
    /\ config = DocEmpty
    /\ env \in Environments
    /\ tool_cache = EmptyMap
    /\ tools = NoTools
    /\ last = Nothing
    /\ reloads = 0
    /\ constructed = 0
    /\ built = ZeroBuilt
    /\ inits = 0
    /\ implicitInits = 0
    /\ service = Serving

Dispatch(task) ==
    /\ BagIn(task, inflight)
    /\ task.call.op = "dispatch"
    /\ last' = Completed(task.call, dispatch(task.call.name, task.call.kwargs), {})
    /\ inflight' = Finish(task)
    /\ UNCHANGED <<config, env, tool_cache, tools, reloads, constructed, built,
                   inits, implicitInits, service>>

AuthNext == \E task \in BagToSet(inflight) : Dispatch(task)

AuthSpec == AuthInit /\ [][AuthNext]_vars

----------------------------------------------------------------------------
(* interpolate_config on its own *)

MaxStrLen == 4

Chars == {"$", "{", "}", "K"}
Strings == UNION {[1..n -> Chars] : n \in 0..MaxStrLen}

\* A nested structure: a dict value holding a placeholder one level down.
Nested(m) == [t |-> "nested", map |-> m]

ConfigValues ==
    {Str(str) : str \in Strings} \cup {Num(5), Nested(KW("token", Str(Placeholder)))}

\* "config" objects of one tool: one key with any value, or that key next to
\* a second one.
Configs ==
    {KW("api_key", v) : v \in ConfigValues}
    \cup {[k \in {"api_key", "max_results"} |-> IF k = "api_key" THEN v ELSE w] :
             v \in ConfigValues,
             w \in {Num(5), Str(Placeholder), Nested(KW("token", Str(Placeholder)))}}

\* The variable of the placeholder unset, set, and set to the empty string.
InterpolationEnvironments == Environments \cup {[v \in {EnvVarK} |-> <<>>]}

InterpolateCall(name) == [op |-> "interpolate_config", name |-> name, kwargs |-> NoArgs]

InterpolationInit ==
    /\ \E c \in Configs : config = KW("google_search", ToolConfig(TRUE, "g", c))
    /\ env \in InterpolationEnvironments
    /\ tool_cache = EmptyMap
    /\ tools = NoTools
    /\ inflight = EmptyBag
    /\ last = Nothing
    /\ reloads = 0
    /\ constructed = 0
    /\ built = ZeroBuilt
    /\ inits = 0
    /\ implicitInits = 0
    /\ service = Serving

\* registry.interpolate_config(tool_config.config), as load_tool calls it.
Interpolate(tool_name) ==
    /\ last' = Completed(InterpolateCall(tool_name),
                         Returned(Nested(interpolate_config(env, config[tool_name].config))),
                         {"interpolate"})
    /\ config' = [config EXCEPT ![tool_name].config = interpolate_config_argument(env, @)]
    /\ UNCHANGED <<env, tool_cache, tools, inflight, reloads, constructed,
                   built, inits, implicitInits, service>>

InterpolationNext == \E tool_name \in DOMAIN config : Interpolate(tool_name)

InterpolationSpec == InterpolationInit /\ [][InterpolationNext]_vars

----------------------------------------------------------------------------
(* Properties *)

\* tool_name is declared in the registry's current document with enabled=true
DeclaredEnabled(tool_name) ==
    tool_name \in DOMAIN config /\ config[tool_name].enabled

\* this step is the one in which the waiting call task completes
Completes(task) ==
    BagIn(task, inflight) /\ inflight' = inflight (-) SetToBag({task})

Executions == {task \in BagToSet(inflight) : task.call.op = "execute_tool"}
Loads == {task \in BagToSet(inflight) : task.call.op = "load_tool"}

\* the instance load_tool would build for tool_name from the current document
FreshInstance(tool_name) ==
    Instance(tool_name, 0, interpolate_config(env, config[tool_name].config), reloads)

\* C1: every name cached by the Loader, and every name an instance has been
\* constructed for since the cache was last cleared, is declared in the
\* Registry's current document with enabled=true.
C1_CacheOnlyEnabled ==
    \A n \in ToolNames :
        (n \in DOMAIN tool_cache \/ built[n] > 0) => DeclaredEnabled(n)

\* C1 witness: after a reload, an instance is cached and a load_tool call for
\* a name that is disabled or undeclared has just returned None.
C1_Witness ==
    /\ reloads > 0
    /\ tool_cache # EmptyMap
    /\ last.call.op = "load_tool"
    /\ ~DeclaredEnabled(last.call.name)
    /\ last.result = Returned(Null)

\* C2: an execute_tool call for a name that is disabled in, or absent from,
\* the document returns the "not found or not enabled" result and constructs
\* and caches nothing, whether _tools was None or not when it ran.
C2_DisabledNotFound ==
    [][\A task \in Executions :
          (Completes(task) /\ ~DeclaredEnabled(task.call.name)) =>
             /\ last'.call = task.call
             /\ last'.result =
                  Returned(ToolResult(FALSE, Null, Str(NotFoundMessage(task.call.name))))
             /\ constructed' = constructed
             /\ built' = built
             /\ tool_cache' = tool_cache]_vars

\* C2 witness: an execute_tool call on a name that is declared but disabled has
\* returned the not-found result, having initialized the manager itself.
C2_Witness ==
    /\ last.call.op = "execute_tool"
    /\ last.call.name \in DOMAIN config
    /\ ~config[last.call.name].enabled
    /\ last.result.value.success = FALSE
    /\ "load_all_tools" \in last.effects
    /\ ~tools.is_none

\* C3 (as claimed): execute_tool on an enabled tool whose construction
\* succeeds, with arguments for which the tool's execute returns V, returns
\* ToolResult(success=true, data=V, error=null).
C3_EnabledSucceeds ==
    [][\A task \in Executions :
          (/\ Completes(task)
           /\ DeclaredEnabled(task.call.name)
           /\ task.call.name \in ConstructibleTools
           /\ ~Tool_execute(FreshInstance(task.call.name), task.call.kwargs).raised) =>
             last'.result =
               Returned(ToolResult(TRUE,
                   Tool_execute(FreshInstance(task.call.name), task.call.kwargs).value,
                   Null))]_vars

\* C4 (as claimed): no execute_tool call raises, and when the tool's execute
\* raises with message M for the given arguments the call returns
\* ToolResult(success=false, data=null, error=M).
C4_FailureNormalized ==
    [][\A task \in Executions :
          Completes(task) =>
             /\ ~last'.result.raised
             /\ (/\ DeclaredEnabled(task.call.name)
                 /\ task.call.name \in ConstructibleTools
                 /\ Tool_execute(FreshInstance(task.call.name), task.call.kwargs).raised) =>
                   last'.result.value =
                     ToolResult(FALSE, Null,
                       Str(Tool_execute(FreshInstance(task.call.name),
                                        task.call.kwargs).msg))]_vars

\* C5 (as claimed): when the document declares current_date enabled with an
\* empty config, execute_tool("current_date", format="date_only") returns
\* success=true with data that has a date field and no time field.
C5_DateOnly ==
    [][\A task \in Executions :
          (/\ Completes(task)
           /\ task.call = ExecuteCall("current_date", KW("format", "date_only"))
           /\ DeclaredEnabled("current_date")
           /\ config["current_date"].config = EmptyMap) =>
             /\ last'.result.value.success = TRUE
             /\ last'.result.value.data.t = "dict"
             /\ "date" \in last'.result.value.data.keys
             /\ "time" \notin last'.result.value.data.keys]_vars

\* C6: a successful reload_config leaves the Loader cache empty and _tools
\* None, and every execute_tool or load_tool call that completes works on
\* objects made under the current document: the held object it looks up and
\* the instance it is handed both carry the current generation, the instance
\* with the current document's interpolated config.
C6_ReloadDropsInstances ==
    [][/\ reloads' # reloads =>
             (tool_cache' = EmptyMap /\ tools'.is_none /\ built' = ZeroBuilt)
       /\ \A task \in Executions :
             (Completes(task) /\ task.call.name \in DOMAIN tools'.map) =>
                tools'.map[task.call.name].gen = reloads
       /\ \A task \in Loads :
             (Completes(task) /\ last'.result.value # Null) =>
                /\ last'.result.value.gen = reloads
                /\ last'.result.value.config =
                     interpolate_config(env, config[task.call.name].config)]_vars

\* C6 witness: an instance was constructed, a later reload emptied the cache,
\* and an execute_tool call that ran after that reload initialized the manager
\* again from the reloaded document.
C6_Witness ==
    /\ reloads >= 1
    /\ constructed >= 1
    /\ tool_cache = EmptyMap
    /\ last.call.op = "execute_tool"
    /\ "load_all_tools" \in last.effects
    /\ ~tools.is_none
    /\ \A n \in DOMAIN tools.map : tools.map[n].gen = reloads

\* C7: in every state a call can run in, the cache and the held mapping were
\* both made under the document the Registry holds now: no state mixes a
\* reloaded document with instances or a mapping from before the reload.
C7_NoTornReload ==
    /\ \A n \in DOMAIN tool_cache : tool_cache[n].gen = reloads
    /\ \A n \in DOMAIN tools.map : tools.map[n].gen = reloads

\* C7 witness: a reload has just completed and cleared an instance built
\* before it, while an execute_tool call is waiting to run.
C7_Witness ==
    /\ last.call = ReloadCall
    /\ last.result = Returned(Null)
    /\ reloads >= 1
    /\ constructed >= 1
    /\ tool_cache = EmptyMap
    /\ tools.is_none
    /\ Executions # {}

\* C8: between two moments at which _tools is None, load_all_tools is started
\* from inside execute_tool at most once, and whenever _tools is set its keys
\* are exactly the enabled names of the document (never a partial mapping).
C8_SingleImplicitInit ==
    /\ implicitInits <= 1
    /\ ~tools.is_none => DOMAIN tools.map = {n \in DOMAIN config : config[n].enabled}

\* C8 witness: one execute_tool call has initialized the manager and completed
\* while another execute_tool call is still waiting to run.
C8_Witness ==
    /\ implicitInits = 1
    /\ last.call.op = "execute_tool"
    /\ "load_all_tools" \in last.effects
    /\ Executions # {}
    /\ \E n \in DOMAIN tools.map : tools.map[n].run = 1

\* C9: between two cache clears at most one instance is constructed per tool
\* name, however many load_tool calls for it wait at once, and every load_tool
\* call that returns an instance returns the one the cache holds under that
\* name.
C9_SingleConstruction ==
    [][/\ \A n \in ToolNames : built'[n] <= 1
       /\ \A task \in Loads :
             (Completes(task) /\ last'.result.value # Null) =>
                /\ task.call.name \in DOMAIN tool_cache'
                /\ last'.result.value = tool_cache'[task.call.name]]_vars

\* C9 witness: a load_tool call has constructed and cached an instance while
\* another load_tool call for the same name is waiting to run.
C9_Witness ==
    /\ last.call.op = "load_tool"
    /\ "construct" \in last.effects
    /\ last.call.name \in DOMAIN tool_cache
    /\ \E task \in Loads : task.call.name = last.call.name

\* C10: a load_tool call for a name that is already cached returns the cached
\* instance itself and neither interpolates nor constructs: the cache, the
\* construction count and the per-name count (exactly one) stay as they were.
C10_CacheHit ==
    [][\A task \in Loads :
          (Completes(task) /\ task.call.name \in DOMAIN tool_cache) =>
             /\ last'.result = Returned(tool_cache[task.call.name])
             /\ last'.effects = {}
             /\ tool_cache' = tool_cache
             /\ constructed' = constructed
             /\ built'[task.call.name] = 1]_vars

\* C10 witness: a second load_tool call for a cached name has returned the
\* cached instance without constructing.
C10_Witness ==
    /\ last.call.op = "load_tool"
    /\ last.call.name \in DOMAIN tool_cache
    /\ last.result = Returned(tool_cache[last.call.name])
    /\ last.effects = {}

\* C11: when initialize() completes, the mapping it stored has as keys exactly
\* the enabled names whose construction succeeded (each of them cached), and
\* each key is mapped to its live tool instance, the one the Loader caches.
C11_LoadAllInstances ==
    [][\A task \in BagToSet(inflight) :
          (Completes(task) /\ task.call.op = "initialize") =>
             /\ ~tools'.is_none
             /\ DOMAIN tools'.map = {n \in DOMAIN tool_cache' : DeclaredEnabled(n)}
             /\ \A n \in DOMAIN tools'.map :
                   /\ tools'.map[n].kind = "instance"
                   /\ tools'.map[n] = tool_cache'[n]]_vars

ReadOps == {"get_available_tools", "get_tool_description", "_get_tool_schema", "get_tool"}

\* this step is a synchronous read operation returning
Reading == inflight' = inflight /\ last' # last

\* C12: _tools goes from None to a mapping only in a step that completes an
\* initialize or an execute_tool call, and from a mapping to None only in a
\* step that completes a reload_config call; a step of get_available_tools,
\* get_tool_description, _get_tool_schema or the tool-info route leaves
\* _tools as it was; and when an execute_tool call completes _tools is a
\* mapping.
C12_InitializationState ==
    [][/\ (tools.is_none /\ ~tools'.is_none) =>
             \E task \in BagToSet(inflight) :
                Completes(task) /\ task.call.op \in {"initialize", "execute_tool"}
       /\ (~tools.is_none /\ tools'.is_none) =>
             \E task \in BagToSet(inflight) :
                Completes(task) /\ task.call.op = "reload_config"
       /\ Reading => (last'.call.op \in ReadOps /\ tools' = tools)
       /\ \A task \in Executions : Completes(task) => ~tools'.is_none]_vars

\* C12 witness: after a reload had reset the Manager, an execute_tool call
\* initialized it again, and a read operation has then run with _tools still
\* a mapping.
C12_Witness ==
    /\ reloads > 0
    /\ implicitInits > 0
    /\ ~tools.is_none
    /\ last.call.op \in ReadOps

\* C13: for a name that the current document does not declare, is_tool_enabled
\* is false, and a load_tool call for it returns None and leaves the cache,
\* and the number of instances constructed, as they were.
C13_UndeclaredNotLoaded ==
    [][\A task \in Loads :
          (Completes(task) /\ task.call.name \notin DOMAIN config) =>
             /\ ~is_tool_enabled(config, task.call.name)
             /\ last'.call = task.call
             /\ last'.result = Returned(Null)
             /\ tool_cache' = tool_cache
             /\ constructed' = constructed]_vars

\* C13 witness: with an instance in the cache, a load_tool call for a name the
\* document does not declare has returned None.
C13_Witness ==
    /\ last.call.op = "load_tool"
    /\ last.call.name \notin DOMAIN config
    /\ last.result = Returned(Null)
    /\ tool_cache # EmptyMap

\* str is the placeholder of the variable name: "${" name "}"
PlaceholderOf(str, name) == str = <<"$", "{">> \o name \o <<"}">>

\* what the claim says a top-level value becomes
Interpolated(value) ==
    IF value.t = "str" /\ \E name \in DOMAIN env : PlaceholderOf(value.s, name)
    THEN Str(env[CHOOSE name \in DOMAIN env : PlaceholderOf(value.s, name)])
    ELSE value

\* C14: interpolate_config returns a map with the same keys; a top-level
\* string "${NAME}" whose variable NAME is set becomes the variable's value;
\* every other value (a placeholder of an unset variable, any other string,
\* a number, a nested structure with a placeholder inside) is returned as it
\* is.
C14_Interpolation ==
    last.call.op = "interpolate_config" =>
        LET given == config[last.call.name].config
            got == last.result.value.map
        IN /\ DOMAIN got = DOMAIN given
           /\ \A key \in DOMAIN given : got[key] = Interpolated(given[key])

\* C14 witness: one call has replaced a placeholder by the value of its
\* variable and passed a nested structure through with its placeholder
\* inside.
C14_Witness ==
    /\ last.call.op = "interpolate_config"
    /\ config[last.call.name].config["api_key"] = Str(Placeholder)
    /\ last.result.value.map["api_key"] = Str(Secret)
    /\ "max_results" \in DOMAIN last.result.value.map
    /\ last.result.value.map["max_results"] = Nested(KW("token", Str(Placeholder)))

Reloadings == {task \in BagToSet(inflight) : task.call.op = "reload_config"}

\* file is not JSON, or is JSON with a tool entry lacking a required field
Rejected(file) ==
    \/ file.file = "malformed"
    \/ /\ file.file = "json"
       /\ \E n \in DOMAIN file.tools :
             "enabled" \notin DOMAIN file.tools[n]
             \/ "description" \notin DOMAIN file.tools[n]

\* C15: a reload_config call that finds no file at config_path succeeds and
\* leaves the Registry with the empty document; one that finds a file that
\* is not JSON, or JSON with a tool entry lacking a required field, raises,
\* and the Registry's document is the one it had: nothing of the rejected
\* file is taken.
C15_LoadOutcomes ==
    [][\A task \in Reloadings :
          Completes(task) =>
             LET file == last'.file IN
             /\ file.file = "missing" =>
                   (~last'.result.raised /\ config' = EmptyMap)
             /\ Rejected(file) => (last'.result.raised /\ config' = config)]_vars

\* C15 witness: with tools declared, a reload_config call that found a JSON
\* file violating the schema has raised and the document is not empty.
C15_Witness ==
    /\ last.call = ReloadCall
    /\ last.file = FileWith(DocNoEnabled)
    /\ last.result.raised
    /\ config # EmptyMap

\* C16: the list get_available_tools returns has exactly one ToolInfo for each
\* name the current document declares with enabled=true, carrying enabled=true
\* and the document's description, and nothing else: no entry for a disabled
\* or undeclared name, whatever _tools and the Loader cache hold.
C16_AvailableTools ==
    last.call = ListCall =>
        LET items == last.result.value.items IN
        /\ \A n \in ToolNames :
              DeclaredEnabled(n) =>
                 \E info \in BagToSet(items) :
                    /\ info.name = n
                    /\ info.enabled
                    /\ info.description = Text(config[n].description)
                    /\ CopiesIn(info, items) = 1
                    /\ \A other \in BagToSet(items) : other.name = n => other = info
        /\ \A info \in BagToSet(items) : DeclaredEnabled(info.name)

\* C16 witness: the document declares one tool enabled and one disabled, the
\* Manager is initialized, no instance has been loaded, and
\* get_available_tools has returned a non-empty list.
C16_Witness ==
    /\ last.call = ListCall
    /\ last.result.value.items # EmptyBag
    /\ \E n \in DOMAIN config : ~config[n].enabled
    /\ ~tools.is_none
    /\ tool_cache = EmptyMap

\* C17: _get_tool_schema(name) returns {} when _tools is None or does not
\* hold the name, and returns what the tool's get_schema() returns when the
\* name is in the mapping initialize() stored.
C17_ToolSchema ==
    last.call.op = "_get_tool_schema" =>
        LET n == last.call.name IN
        /\ (tools.is_none \/ n \notin DOMAIN tools.map) =>
              last.result = Returned(Dict({}))
        /\ (~tools.is_none /\ n \in DOMAIN tools.map /\ n \in ConstructibleTools) =>
              last.result = Returned(Tool_get_schema(FreshInstance(n)))

\* C18: GET /tools/{tool_name} answers 404 "Tool '<name>' not found or not
\* enabled" for a name the document does not declare or declares disabled,
\* and answers with the tool's info for a name it declares enabled.
C18_ToolInfo ==
    last.call.op = "get_tool" =>
        IF DeclaredEnabled(last.call.name)
        THEN /\ ~last.result.raised
             /\ last.result.value.status_code = 200
             /\ last.result.value.content.name = last.call.name
        ELSE last.result = HTTPException(404, NotFoundMessage(last.call.name))

\* C19: a reload_config call whose document load raises passes the error on
\* and changes nothing: the Registry's document, the Loader cache with its
\* instances, and _tools are what they were before the call.
C19_FailedReloadKeepsState ==
    [][\A task \in Reloadings :
          (Completes(task) /\ Rejected(last'.file)) =>
             /\ last'.result.raised
             /\ config' = config
             /\ tool_cache' = tool_cache
             /\ tools' = tools
             /\ reloads' = reloads]_vars

\* C19 witness: with an instance cached and the Manager initialized, a
\* reload_config call that found a file that is not JSON has raised, and the
\* instance and the mapping are still there.
C19_Witness ==
    /\ last.call = ReloadCall
    /\ last.file = FileMalformed
    /\ last.result.raised
    /\ tool_cache # EmptyMap
    /\ ~tools.is_none

\* C20: every execute_tool call returns (it does not raise) a ToolResult in
\* which success=true comes with error null, and success=false comes with
\* data null and a string as error.
C20_ResultShape ==
    last.call.op = "execute_tool" =>
        /\ ~last.result.raised
        /\ LET r == last.result.value IN
           /\ r.success => r.error = Null
           /\ ~r.success => (r.data = Null /\ r.error.t = "str")

\* C20 witness: after a reload, with another call waiting, an execute_tool
\* call has run load_all_tools itself and returned a failure whose error is a
\* string and whose data is null.
C20_Witness ==
    /\ last.call.op = "execute_tool"
    /\ ~last.result.value.success
    /\ last.result.value.data = Null
    /\ last.result.value.error.t = "str"
    /\ "load_all_tools" \in last.effects
    /\ reloads > 0
    /\ inflight # EmptyBag

\* C21: the Registry's document changes only in a step that completes a
\* reload_config call: load_tool (which interpolates), initialize and
\* execute_tool leave it as the last load produced it.  A load_tool call that
\* constructs an instance has interpolated in that same call, a load_tool
\* call that hits the cache has not, and initialize and execute_tool
\* interpolate nothing.
C21_InterpolationFrame ==
    [][/\ (\A task \in Reloadings : ~Completes(task)) =>
             config' = config
       /\ \A task \in Loads :
             Completes(task) =>
                /\ constructed' # constructed => "interpolate" \in last'.effects
                /\ task.call.name \in DOMAIN tool_cache =>
                      "interpolate" \notin last'.effects
       /\ \A task \in BagToSet(inflight) :
             (Completes(task) /\ task.call.op \in {"initialize", "execute_tool"}) =>
                "interpolate" \notin last'.effects]_vars

\* C21 witness: a load_tool call has built google_search with the value of
\* the variable as api_key, and the stored document still has the
\* placeholder.
C21_Witness ==
    /\ last.call = LoadCall("google_search")
    /\ "interpolate" \in last.effects
    /\ "google_search" \in DOMAIN tool_cache
    /\ tool_cache["google_search"].config["api_key"] = Str(Secret)
    /\ config["google_search"].config["api_key"] = Str(Placeholder)

\* C22: a load_tool call for a name that is enabled and not cached, and for
\* which no instance gets constructed (the name has no entry in
\* TOOL_IMPLEMENTATIONS, or import, class lookup or constructor fail),
\* returns None, does not raise, and leaves the cache as it was, so the name
\* is still not cached and the next load_tool call for it takes the same
\* path.  A name without an entry in TOOL_IMPLEMENTATIONS never gets an
\* instance.
C22_FailedLoad ==
    [][\A task \in Loads :
          (Completes(task) /\ DeclaredEnabled(task.call.name)
                           /\ task.call.name \notin DOMAIN tool_cache) =>
             /\ task.call.name \notin TOOL_IMPLEMENTATIONS => constructed' = constructed
             /\ constructed' = constructed =>
                   /\ last'.result = Returned(Null)
                   /\ tool_cache' = tool_cache
                   /\ task.call.name \notin DOMAIN tool_cache']_vars

\* C22 witness: with another instance cached, a load_tool call for the
\* enabled tool that has no implementation has interpolated, returned None
\* and cached nothing.
C22_Witness ==
    /\ last.call.op = "load_tool"
    /\ DeclaredEnabled(last.call.name)
    /\ last.call.name \notin TOOL_IMPLEMENTATIONS
    /\ last.result = Returned(Null)
    /\ "interpolate" \in last.effects
    /\ last.call.name \notin DOMAIN tool_cache
    /\ tool_cache # EmptyMap

\* C23: an initialize() call that completes while _tools already is a mapping
\* (no reload_config since it was stored) leaves _tools with the same keys
\* and the very same objects under them.
C23_InitializeIdempotent ==
    [][\A task \in BagToSet(inflight) :
          (Completes(task) /\ task.call.op = "initialize" /\ ~tools.is_none) =>
             /\ DOMAIN tools'.map = DOMAIN tools.map
             /\ \A n \in DOMAIN tools.map : tools'.map[n] = tools.map[n]]_vars

\* C24: whenever _tools is a mapping, every name in it is in the Loader cache
\* and the object held under it is the one the cache stores under that name.
C24_HeldOwnedByCache ==
    ~tools.is_none =>
        \A n \in DOMAIN tools.map :
            n \in DOMAIN tool_cache /\ tools.map[n] = tool_cache[n]

\* C25: every execute_tool call that has been scheduled eventually returns a
\* ToolResult (it completes, and does not raise), whatever other
\* execute_tool, initialize and reload_config calls run before it.
C25_ExecuteReturns ==
    \A c \in ExecuteCalls :
        BagIn(Task(c, "pending"), inflight)
            ~> (/\ last.call = c
                /\ ~last.result.raised
                /\ last.result.value.success \in BOOLEAN)

\* C25 witness: an execute_tool call that was scheduled while the Manager was
\* not initialized has returned a ToolResult, after a reload, while another
\* call is still waiting.
C25_Witness ==
    /\ last.call \in ExecuteCalls
    /\ ~last.result.raised
    /\ "load_all_tools" \in last.effects
    /\ reloads > 0
    /\ \E task \in BagToSet(inflight) : task.call.op = "reload_config"

\* this step is an MCPService() call completing
Constructing == last'.call = ServiceCall /\ last' # last

\* C26: every MCPService() that returns, returns the one object ever created;
\* on an initialized service it builds no ToolManager and leaves the
\* document, the cache and _tools as they are; on a service whose earlier
\* __init__ raised it builds the ToolManager again, and succeeds or raises
\* as the configuration file allows.
C26_Singleton ==
    [][Constructing =>
          /\ service'.objects = 1
          /\ ~last'.result.raised => last'.result.value = Num(1)
          /\ service.initialized =>
                /\ ~last'.result.raised
                /\ service' = service
                /\ config' = config
                /\ tool_cache' = tool_cache
                /\ tools' = tools
          /\ ~service.initialized =>
                /\ last'.file # FileUnread
                /\ Rejected(last'.file) =>
                      (last'.result.raised /\ ~service'.initialized
                                           /\ service'.managers = 0)
                /\ ~Rejected(last'.file) =>
                      (~last'.result.raised /\ service'.initialized
                                            /\ service'.managers = 1)]_vars

\* C26 witness: the first MCPService() raised, a later one built the
\* ToolManager, tools were loaded and the Manager initialized, and one more
\* MCPService() has returned with all of that still in place.
C26_Witness ==
    /\ last.call = ServiceCall
    /\ last.file = FileUnread
    /\ service.failed
    /\ service.initialized
    /\ service.managers = 1
    /\ tool_cache # EmptyMap
    /\ ~tools.is_none

\* C27: a request reaches the route handler only if its path is one of the
\* routes listed in auth_excluded_routes, or its Authorization header is
\* "Bearer <token>" with a token that resolves to an existing, active user;
\* every other request is answered 401.
C27_AuthRequired ==
    last.call.op = "dispatch" =>
        LET path == last.call.name
            auth_header == last.call.kwargs
            valid == /\ Len(auth_header) = 2
                     /\ auth_header[1].word \in {"Bearer", "bearer"}
                     /\ auth_header[2].word = Token(TRUE, TRUE, TRUE)
        IN IF path \in auth_excluded_routes \/ valid
           THEN ~last.result.raised
           ELSE last.result.raised /\ last.result.status_code = 401

====
